---- MODULE Spec2Model ----
(***************************************************************************)
(* Sith: the active-window / idle detection and time-accumulation loop     *)
(* (SithWindow.updateTimer_), the summary and config stores (utils.py)     *)
(* and the settings window handlers that rewrite the configuration.        *)
(*                                                                         *)
(* Conventions                                                             *)
(*  - Durations are integers in milliseconds: the Python float s seconds   *)
(*    is the integer 1000*s.  UPDATE_INTERVAL / 1000.0 seconds is          *)
(*    therefore UPDATE_INTERVAL, and idle_seconds >= IDLE_THRESHOLD is     *)
(*    idle_ms >= IDLE_THRESHOLD * 1000.  Sums are exact, as they are in    *)
(*    binary floating point for the compiled-in interval of 125 ms.        *)
(*  - A Python dict is a function whose DOMAIN is its key set.             *)
(*  - ISO date keys are day numbers; the process starts on day 1 and day 0 *)
(*    is a day of an earlier session.                                      *)
(*  - Spec is the running application from the state its start leaves on   *)
(*    a default config file; StartSpec is the start itself (module import  *)
(*    and SithWindow.init) on every kind of stored file, up to the quit.   *)
(*    WindowSpec is the running application with the summary, settings and *)
(*    guide windows and the status bar item; ConfigSpec is the settings    *)
(*    window on a config file written by an older version, without the     *)
(*    keys "allowlist" and "colors"; DisplaySpec is the update tick with   *)
(*    the colours of the labels and the colour animation timer.            *)
(*  - Nothing in the classification and accumulation part of a tick reads  *)
(*    the colours of the labels, so Tick (in Spec, WindowSpec, ConfigSpec) *)
(*    leaves them alone and UpdateTick (in DisplaySpec) is the whole tick. *)
(*  - A colour is the record of its components in 1/255.                   *)
(***************************************************************************)
EXTENDS Integers, Sequences, FiniteSets, TLC

\* ---------------------------------------------------------------- bounds
MaxTicks == 2
MaxEvents == 1

\* ------------------------------------------------------------- constants
None == "None"
UNKNOWN == "(unknown)"
FAIL == "FAIL"
AppNames == {"Sith", "Code"}
\* the values of app_name in updateTimer_
OSNames == AppNames \cup {UNKNOWN}
\* outcomes of the frontmost-application query: FAIL (an exception, PyObjC
\* missing, no frontmost application) or the application's name
FrontOutcomes == {FAIL} \cup AppNames
\* outcomes of the ioreg query: ms is the time since the last input event in
\* milliseconds, fail tells that the query raises or prints no HIDIdleTime line
IdleSamples == {0, 2000}
IdleOutcomes == {o \in [fail : BOOLEAN, ms : IdleSamples] : o.fail => o.ms > 0}

\* ------------------------------------------------------------ dict helpers
EmptyDict == [k \in {} |-> 0]
Get(d, k, default) == IF k \in DOMAIN d THEN d[k] ELSE default
Put(d, k, v) == [x \in DOMAIN d \cup {k} |-> IF x = k THEN v ELSE d[x]]
Range(s) == {s[i] : i \in DOMAIN s}
Contains(s, a) == \E i \in DOMAIN s : s[i] = a
RECURSIVE SumOver(_, _)
SumOver(f, S) ==
    IF S = {} THEN 0
    ELSE LET k == CHOOSE x \in S : TRUE IN f[k] + SumOver(f, S \ {k})
SumValues(f) == SumOver(f, DOMAIN f)

VARIABLES
    \* SithWindow fields
    worked_seconds, is_working, current_app, summary, today, last_tracked_app,
    color_animation_enabled,
    \* SithWindow.settings_window: the SettingsController of the visible
    \* settings window, or NoSettings (None)
    settings_window,
    \* module-level globals of main.py
    ALLOWLIST, IDLE_THRESHOLD, UPDATE_INTERVAL,
    \* utils.DEFAULT_CONFIG["allowlist"], a mutable module-level list
    DEFAULT_allowlist,
    \* the files under ~/.sith
    configFile, summaryFile,
    \* the state of the config file: "absent", "unparseable" or "json" (then
    \* configFile is the object it holds)
    configKind,
    \* the number of scheduled recent-apps refresh timers (SettingsController
    \* .refresh_timer, repeating, retained by the run loop)
    refresh_timers,
    \* the modal alert on screen (SithWindow.show_alert), or None
    alert,
    \* the period of the scheduled update timer (SithWindow.init, 182-190), 0
    \* while there is none
    update_timer,
    \* SithWindow.summary_window and guide_window: None, or the window created
    \* last, which is "visible" or "closed"
    summary_window, guide_window,
    \* the number of windows of each kind on screen
    on_screen,
    \* the main window is on screen; a status bar item exists
    window_visible, status_item,
    \* utils.DEFAULT_CONFIG["colors"], a mutable module-level dict
    DEFAULT_colors,
    \* module-level globals of main.py: the label colours
    GLASS_WORKING_COLOR, GLASS_INACTIVE_COLOR,
    \* the labels of the main window: the colour they show, the colour the last
    \* tick decided on (SithWindow.previous_text_color), the number of scheduled
    \* animation timers (color_anim_timer) and the animation's end points
    label_color, previous_text_color, color_anim_timer, color_anim_from, color_anim_to,
    \* the environment: the calendar date
    date,
    \* the process: "running" until NSApp.terminate_
    proc,
    \* the last updateTimer_ call: its app_name, and whether it raised an
    \* exception out to the run loop
    last_tick,
    \* history: the summary as loaded at startup, the number of Working ticks
    \* per application since startup and in all since the last reset, and the
    \* number of rarer events (a failed file operation, a settings edit or a
    \* rejected one, a close of the settings window, a midnight) so far
    loaded, ticks, since_reset, events

session == <<worked_seconds, is_working, current_app>>
globals == <<ALLOWLIST, IDLE_THRESHOLD, UPDATE_INTERVAL>>
startup == <<today, loaded, update_timer>>
disk == <<configKind>>
windows == <<summary_window, guide_window, window_visible, status_item>>
glass == <<GLASS_WORKING_COLOR, GLASS_INACTIVE_COLOR>>
display == <<label_color, previous_text_color, color_anim_timer, color_anim_from,
             color_anim_to>>
screen == <<alert, windows, on_screen, DEFAULT_colors, glass, display>>
counts == <<ticks, since_reset>>
Ticks == SumValues(ticks)
vars == <<session, summary, last_tracked_app, settings_window, globals,
          DEFAULT_allowlist, configFile, summaryFile, date, proc, startup,
          last_tick, counts, events, disk, refresh_timers, screen,
          color_animation_enabled>>

\* outcomes of a handler's file I/O: every call succeeds, every read of the
\* config file fails (load_config returns the defaults), or the first write
\* (or mkdir) raises
IOOutcomes == {"ok", "read_fails", "write_raises"}
\* the outcomes followed in the settings window: its reads succeed
SettingsIO == {"ok", "write_raises"}
\* a failed file operation is one of the counted events
Fault(io) ==
    /\ io # "ok" => events < MaxEvents
    /\ events' = IF io = "ok" THEN events ELSE events + 1

\* ------------------------------------------------------------ utils.py
\* DEFAULT_CONFIG (the keys this model follows) when its "allowlist" list
\* object holds defAllow
\* and its "colors" dict the compiled-in colours
DEFAULT_GLASS == [glass_working |-> "#00d4ff", glass_inactive |-> "#ffffff"]
DefaultConfig(defAllow) ==
    [allowlist |-> defAllow, idle_threshold |-> 2, enable_color_animation |-> TRUE,
     colors |-> DEFAULT_GLASS, update_interval |-> 125]
\* DEFAULT_CONFIG when its nested objects hold defAllow and defColors
DefaultConfigWith(defAllow, defColors) ==
    [DefaultConfig(defAllow) EXCEPT !.colors = defColors]
DEFAULT_CONFIG == DefaultConfigWith(DEFAULT_allowlist, DEFAULT_colors)

\* a faulty merge in which the defaults win over the file
MergedDefaultsFirst(defaults, config) ==
    [k \in DOMAIN defaults \cup DOMAIN config |->
        IF k \in DOMAIN defaults THEN defaults[k] ELSE config[k]]

\* merged = DEFAULT_CONFIG.copy(); merged.update(config)
Merged(defaults, config) ==
    [k \in DOMAIN defaults \cup DOMAIN config |->
        IF k \in DOMAIN config THEN config[k] ELSE defaults[k]]

\* load_config on an existing config file.  readOK = FALSE: read_text or
\* json.loads raises and the except branch returns DEFAULT_CONFIG.copy().
\* The copy is shallow: "shared" tells that the returned document's allowlist
\* is the list object of DEFAULT_CONFIG itself, "shared_colors" that its
\* colors is the dict object of DEFAULT_CONFIG itself.
load_config(file, defaults, readOK) ==
    IF readOK
    THEN [doc |-> Merged(defaults, file), shared |-> "allowlist" \notin DOMAIN file,
          shared_colors |-> "colors" \notin DOMAIN file]
    ELSE [doc |-> defaults, shared |-> TRUE, shared_colors |-> TRUE]

\* get_config: the Config class attributes main.py reads
get_config(file, defaults, readOK) ==
    LET config == load_config(file, defaults, readOK).doc
    IN [ALLOWLIST |-> Range(Get(config, "allowlist", defaults.allowlist)),
        IDLE_THRESHOLD |-> Get(config, "idle_threshold", defaults.idle_threshold),
        GLASS_WORKING_COLOR |->
            Get(Get(config, "colors", EmptyDict), "glass_working",
                defaults.colors.glass_working),
        GLASS_INACTIVE_COLOR |->
            Get(Get(config, "colors", EmptyDict), "glass_inactive",
                defaults.colors.glass_inactive),
        UPDATE_INTERVAL |-> Get(config, "update_interval", defaults.update_interval)]

\* a faulty load_config that writes the default document on every call
load_config_file_overwriting(kind, file, defaults) ==
    [kind |-> "json", doc |-> defaults]

\* the config file after lines 64-69 of load_config: the default document is
\* written when there is no file, an existing file is left as it is
load_config_file(kind, file, defaults) ==
    IF kind = "absent"
    THEN [kind |-> "json", doc |-> defaults]
    ELSE [kind |-> kind, doc |-> file]

\* The kinds of a summary file: "absent", "unparseable" (read_text or
\* json.loads raises), "json" (a JSON object, data) and "array" (a document
\* that parses to a list, here []).
\* load_summary: {} when the file is absent or does not parse, else whatever
\* json.loads returns
load_summary(file) == IF file.kind \in {"json", "array"} THEN file.data ELSE EmptyDict

\* a faulty save_summary that writes an empty document
save_summary_empty(data) == [kind |-> "json", data |-> [k \in {} |-> data]]

\* save_summary: the file after json.dumps(data) was written
save_summary(data) == [kind |-> "json", data |-> data]

\* get_frontmost_app_name: None on an exception, without PyObjC, without a
\* frontmost application and for an empty name
get_frontmost_app_name(outcome) ==
    IF outcome \in {FAIL, None} THEN None ELSE outcome

\* get_idle_seconds (in ms): 0.0 on an exception or a missing HIDIdleTime line
get_idle_seconds(outcome) ==
    IF outcome.fail THEN 0 ELSE outcome.ms

\* ------------------------------------------------------------ startup
\* one day's entry of the summary
DayEntry(total, by_app) == [total |-> total, by_app |-> by_app]
NewDay == DayEntry(0, EmptyDict)

\* the summary files a start may find: none, or a well-formed one (an
\* earlier day, and today already begun)
StartupSummaryFiles ==
    { [kind |-> "absent", data |-> EmptyDict],
      [kind |-> "json", data |-> (0 :> DayEntry(500, [Sith |-> 500]))
                                 @@ (1 :> DayEntry(250, [Code |-> 250]))] }

\* the config file after the first load_config of a start: the default document
StartupConfigFiles == { DefaultConfig(<<"Sith">>) }

\* a config file without the keys "allowlist" and "colors" (written by hand,
\* or by a version that did not have them), its values not the defaults
OlderConfigFiles == { [idle_threshold |-> 5, update_interval |-> 250] }

\* the summary files the process may be started on: those above, one that does
\* not parse, one that parses to a list, and one without an entry for today
StoredSummaryFiles ==
    StartupSummaryFiles \cup
    { [kind |-> "unparseable", data |-> EmptyDict],
      [kind |-> "array", data |-> <<>>],
      [kind |-> "json", data |-> (0 :> DayEntry(500, [Sith |-> 500]))] }

\* the config files the process may be started on: none, one that does not
\* parse, and the JSON objects that hold a subset of the known keys, each
\* with a value that is not the default
FileValues ==
    [allowlist |-> <<"Code">>, idle_threshold |-> 5, enable_color_animation |-> FALSE,
     update_interval |-> 250]
StoredConfigFiles ==
    { [kind |-> k, doc |-> EmptyDict] : k \in {"absent", "unparseable"} } \cup
    { [kind |-> "json", doc |-> [k \in S |-> FileValues[k]]] : S \in SUBSET DOMAIN FileValues }

\* SettingsController fields: config (self.config), shared and shared_colors
\* (self.config's allowlist, colors, is the object of DEFAULT_CONFIG),
\* last_recent_apps, and the buttons the last buildUI created: the titles of
\* the "Add app" buttons and the names beside the "-" buttons (the button
\* beside remove_buttons[i+1] has tag i); idle_field_valid tells whether the
\* text of the idle field is an integer literal.  window_closed: the
\* controller's window was closed and SithWindow.settings_window still holds
\* the controller (no other field of it is read again)
NoSettings ==
    [open |-> FALSE, config |-> EmptyDict, shared |-> FALSE, shared_colors |-> FALSE,
     last_recent_apps |-> <<>>, add_buttons |-> <<>>, remove_buttons |-> <<>>,
     idle_field_valid |-> TRUE, window_closed |-> FALSE]

NoTick == [app_name |-> None, raised |-> FALSE]

\* display_utils.hex_to_nscolor: the red, green and blue components of
\* "#rrggbb" (in 1/255) and alpha 1.0, for the colour strings of this model
PickedColors == {"#ff0000"}
Components ==
    ("#00d4ff" :> <<0, 212, 255>>) @@ ("#ffffff" :> <<255, 255, 255>>)
    @@ ("#ff0000" :> <<255, 0, 0>>)
hex_to_nscolor(hex_color) == [rgb |-> Components[hex_color], alpha |-> 255]
\* no colour: None in previous_text_color, color_anim_from and color_anim_to
NoColor == [rgb |-> <<>>, alpha |-> 0]
\* NSColor.whiteColor()
WHITE == [rgb |-> <<255, 255, 255>>, alpha |-> 255]
NoWindows == [summary |-> 0, settings |-> 0, guide |-> 0]

\* SithWindow.init and create_window: the fields of a new SithWindow that do
\* not depend on the configuration, the main window on screen
Constructed ==
    /\ summary_window = None
    /\ guide_window = None
    /\ on_screen = NoWindows
    /\ window_visible = TRUE
    /\ status_item = FALSE
    /\ label_color = WHITE
    /\ previous_text_color = NoColor
    /\ color_anim_timer = 0
    /\ color_anim_from = NoColor
    /\ color_anim_to = NoColor

\* module import (main.py 82-95) followed by SithWindow.init, on one of the
\* given config files (JSON objects) and summary files
Started(configFiles, summaryFiles) ==
    /\ DEFAULT_allowlist = <<"Sith">>
    /\ DEFAULT_colors = DEFAULT_GLASS
    /\ configFile \in configFiles
    /\ summaryFile \in summaryFiles
    /\ date = 1
    /\ ALLOWLIST = get_config(configFile, DEFAULT_CONFIG, TRUE).ALLOWLIST
    /\ IDLE_THRESHOLD = get_config(configFile, DEFAULT_CONFIG, TRUE).IDLE_THRESHOLD
    /\ UPDATE_INTERVAL = get_config(configFile, DEFAULT_CONFIG, TRUE).UPDATE_INTERVAL
    /\ worked_seconds = 0
    /\ is_working = FALSE
    /\ current_app = None
    /\ today = date
    /\ loaded = load_summary(summaryFile)
    /\ summary = IF today \in DOMAIN loaded THEN loaded ELSE Put(loaded, today, NewDay)
    /\ last_tracked_app = None
    /\ settings_window = NoSettings
    /\ proc = "running"
    /\ ticks = [a \in OSNames |-> 0]
    /\ since_reset = 0
    /\ events = 0
    /\ last_tick = NoTick
    /\ configKind = "json"
    /\ refresh_timers = 0
    /\ alert = None
    /\ color_animation_enabled =
          Get(load_config(configFile, DEFAULT_CONFIG, TRUE).doc, "enable_color_animation", TRUE)
    /\ GLASS_WORKING_COLOR = get_config(configFile, DEFAULT_CONFIG, TRUE).GLASS_WORKING_COLOR
    /\ GLASS_INACTIVE_COLOR = get_config(configFile, DEFAULT_CONFIG, TRUE).GLASS_INACTIVE_COLOR
    /\ update_timer = UPDATE_INTERVAL
    /\ Constructed

Init == Started(StartupConfigFiles, StartupSummaryFiles)

\* no SithWindow: no window, no status bar item, no timer
NoProcess ==
    /\ summary_window = None
    /\ guide_window = None
    /\ on_screen = NoWindows
    /\ window_visible = FALSE
    /\ status_item = FALSE
    /\ label_color = NoColor
    /\ previous_text_color = NoColor
    /\ color_anim_timer = 0
    /\ color_anim_from = NoColor
    /\ color_anim_to = NoColor

\* before the process is started: no memory yet, files as they were left
Stopped ==
    /\ DEFAULT_allowlist = <<"Sith">>
    /\ DEFAULT_colors = DEFAULT_GLASS
    /\ \E f \in StoredConfigFiles : configKind = f.kind /\ configFile = f.doc
    /\ summaryFile \in StoredSummaryFiles
    /\ date = 1
    /\ proc = "stopped"
    /\ ALLOWLIST = {}
    /\ IDLE_THRESHOLD = 0
    /\ UPDATE_INTERVAL = 0
    /\ worked_seconds = 0
    /\ is_working = FALSE
    /\ current_app = None
    /\ today = 0
    /\ loaded = EmptyDict
    /\ summary = EmptyDict
    /\ last_tracked_app = None
    /\ settings_window = NoSettings
    /\ ticks = [a \in OSNames |-> 0]
    /\ since_reset = 0
    /\ events = 0
    /\ last_tick = NoTick
    /\ refresh_timers = 0
    /\ alert = None
    /\ color_animation_enabled = TRUE
    /\ GLASS_WORKING_COLOR = None
    /\ GLASS_INACTIVE_COLOR = None
    /\ update_timer = 0
    /\ NoProcess

\* the step that constructs the SithWindow, and the step that ends the process
Construct ==
    /\ summary_window' = None
    /\ guide_window' = None
    /\ on_screen' = NoWindows
    /\ window_visible' = TRUE
    /\ status_item' = FALSE
    /\ label_color' = WHITE
    /\ previous_text_color' = NoColor
    /\ color_anim_timer' = 0
    /\ color_anim_from' = NoColor
    /\ color_anim_to' = NoColor
Destroy ==
    /\ summary_window' = None
    /\ guide_window' = None
    /\ on_screen' = NoWindows
    /\ window_visible' = FALSE
    /\ status_item' = FALSE
    /\ label_color' = NoColor
    /\ previous_text_color' = NoColor
    /\ color_anim_timer' = 0
    /\ color_anim_from' = NoColor
    /\ color_anim_to' = NoColor

\* main.py 172-173 on the value load_summary returned: for a list,
\* self.summary[self.today] = {...} raises TypeError
init_raises(file) == file.kind = "array"

\* The start of the process: the module import (main.py 83-95, get_config)
\* and main(), which constructs the SithWindow (init, 124-192).  A failed
\* mkdir or a failed write of the default document raises at the import; both
\* are possible only while there is no config file.  An exception at the
\* import or in init ends the process.
main(io) ==
    LET file == load_config_file(configKind, configFile, DEFAULT_CONFIG)
        readOK == file.kind = "json"
        config == get_config(file.doc, DEFAULT_CONFIG, readOK)
        config_data == load_config(file.doc, DEFAULT_CONFIG, readOK).doc
        returned == load_summary(summaryFile)
    IN /\ proc = "stopped"
       /\ io # "read_fails"
       /\ io = "write_raises" => configKind = "absent"
       /\ Fault(io)
       /\ IF io = "write_raises"
          THEN /\ proc' = "crashed"
               /\ UNCHANGED <<configKind, configFile, globals, startup, summary,
                              color_animation_enabled, glass, windows, on_screen,
                              display>>
          ELSE /\ configKind' = file.kind
               /\ configFile' = file.doc
               /\ ALLOWLIST' = config.ALLOWLIST
               /\ IDLE_THRESHOLD' = config.IDLE_THRESHOLD
               /\ GLASS_WORKING_COLOR' = config.GLASS_WORKING_COLOR
               /\ GLASS_INACTIVE_COLOR' = config.GLASS_INACTIVE_COLOR
               /\ UPDATE_INTERVAL' = config.UPDATE_INTERVAL
               /\ loaded' = returned
               /\ today' = date
               /\ color_animation_enabled' = Get(config_data, "enable_color_animation", TRUE)
               /\ IF init_raises(summaryFile)
                  THEN /\ proc' = "crashed"
                       /\ UNCHANGED <<summary, update_timer, windows, on_screen, display>>
                  ELSE /\ proc' = "running"
                       /\ summary' = IF date \in DOMAIN returned
                                     THEN returned
                                     ELSE Put(returned, date, NewDay)
                       /\ update_timer' = config.UPDATE_INTERVAL
                       /\ Construct
       /\ UNCHANGED <<session, last_tracked_app, settings_window, DEFAULT_allowlist,
                      summaryFile, date, last_tick, counts, refresh_timers, alert,
                      DEFAULT_colors>>

\* ------------------------------------------------------------ main.py
RemoveFirst(s, a) ==
    IF Contains(s, a)
    THEN LET i == CHOOSE j \in DOMAIN s : s[j] = a /\ \A k \in 1..(j-1) : s[k] # a
         IN SubSeq(s, 1, i-1) \o SubSeq(s, i+1, Len(s))
    ELSE s
Prefix(s, n) == SubSeq(s, 1, IF Len(s) < n THEN Len(s) ELSE n)
RECENT_MAX == 10

\* track_recent_app: the document it writes to the config file
track_recent_app(app_name, file, defaults, readOK) ==
    LET config_data == load_config(file, defaults, readOK).doc
        recent == Get(config_data, "recent_apps", <<>>)
    IN Put(config_data, "recent_apps",
           Prefix(<<app_name>> \o RemoveFirst(recent, app_name), RECENT_MAX))

\* a faulty accumulation that increments total alone
AccumulateTotalOnly(s, day, app_name, elapsed) ==
    [s EXCEPT ![day] = DayEntry(s[day].total + elapsed, s[day].by_app)]

\* a faulty accumulation that assigns by_app[app_name] instead of adding to it
AccumulateAssigning(s, day, app_name, elapsed) ==
    [s EXCEPT ![day] =
        DayEntry(s[day].total + elapsed, Put(s[day].by_app, app_name, elapsed))]

\* a faulty accumulation that starts the day's entry afresh
AccumulateResetting(s, day, app_name, elapsed) ==
    [s EXCEPT ![day] = DayEntry(elapsed, (app_name :> elapsed))]

\* a faulty accumulation that leaves total as it is
AccumulateByAppOnly(s, day, app_name, elapsed) ==
    [s EXCEPT ![day] =
        DayEntry(s[day].total,
                 Put(s[day].by_app, app_name, Get(s[day].by_app, app_name, 0) + elapsed))]

\* the summary after one Working tick in app_name
Accumulate(s, day, app_name, elapsed) ==
    [s EXCEPT ![day] =
        DayEntry(s[day].total + elapsed,
                 Put(s[day].by_app, app_name, Get(s[day].by_app, app_name, 0) + elapsed))]

\* WorkClassifier (main.py 447-461)
AppName(front) ==
    IF get_frontmost_app_name(front) = None THEN UNKNOWN ELSE get_frontmost_app_name(front)
Allowed(app_name, allowlist) == app_name \in allowlist
IsIdle(idle_seconds, idle_threshold) == idle_seconds >= idle_threshold * 1000
Classify(app_name, idle_seconds, allowlist, idle_threshold) ==
    Allowed(app_name, allowlist) /\ ~IsIdle(idle_seconds, idle_threshold)

\* a faulty condition without the test for "(unknown)"
TracksUnknown(app_name, last_tracked) == app_name # last_tracked

\* main.py 452-458: whether this tick calls track_recent_app
Tracks(app_name, last_tracked) == app_name # UNKNOWN /\ app_name # last_tracked

\* the day key a Working tick accumulates into: self.today, assigned in init
SummaryKey(startDay, currentDate) == startDay

\* SithWindow.updateTimer_: one firing of the update timer.  front and idle are
\* the outcomes of the two OS queries, io that of the config file operations
\* inside track_recent_app (a failed write or mkdir raises out of updateTimer_
\* after _last_tracked_app was assigned).
updateTimer_(front, idle, io) ==
    LET app_name == AppName(front)
        idle_seconds == get_idle_seconds(idle)
        track == Tracks(app_name, last_tracked_app)
        raises == track /\ io = "write_raises"
        working == Classify(app_name, idle_seconds, ALLOWLIST, IDLE_THRESHOLD)
        elapsed == UPDATE_INTERVAL
        key == SummaryKey(today, date)
    IN /\ proc = "running"
       /\ ~track => io = "ok"
       /\ Fault(io)
       /\ (~raises /\ working) => Ticks < MaxTicks
       /\ last_tick' = [app_name |-> app_name, raised |-> raises]
       /\ last_tracked_app' = IF track THEN app_name ELSE last_tracked_app
       /\ configFile' = IF track /\ ~raises
                        THEN track_recent_app(app_name, configFile, DEFAULT_CONFIG,
                                              io # "read_fails")
                        ELSE configFile
       /\ IF raises
          THEN UNCHANGED <<session, summary>>
          ELSE /\ is_working' = working
               /\ IF working
                  THEN /\ worked_seconds' = worked_seconds + elapsed
                       /\ current_app' = app_name
                       /\ summary' = Accumulate(summary, key, app_name, elapsed)
                  ELSE UNCHANGED <<worked_seconds, current_app, summary>>
       /\ IF ~raises /\ working
          THEN /\ ticks' = [ticks EXCEPT ![app_name] = @ + 1]
               /\ since_reset' = since_reset + 1
          ELSE UNCHANGED counts
       /\ UNCHANGED <<settings_window, globals, DEFAULT_allowlist, summaryFile, date,
                      proc, startup, disk, alert, windows, on_screen, DEFAULT_colors,
                      glass, refresh_timers, color_animation_enabled>>

\* A window of the summary, settings or guide kind closes.  Its delegate is
\* a WindowDelegate that toggleSummary_, toggleSettings_ or toggleGuide_
\* created and kept in a local variable only (main.py 678-679, 706-707,
\* 737-738); NSWindow does not retain its delegate, so when the window closes
\* the delegate may be gone.  called tells whether windowWillClose_ of the
\* delegate, and with it on_summary_closed, on_settings_closed or
\* on_guide_closed, runs.
DelegateOutcomes == BOOLEAN
\* on_summary_closed, on_guide_closed: the tracked reference after the close
Tracked(called) == IF called THEN None ELSE "closed"
\* on_settings_closed
TrackedSettings(called) ==
    IF called THEN NoSettings ELSE [NoSettings EXCEPT !.window_closed = TRUE]

\* NSTimer.invalidate() on self.color_anim_timer when it is not None
Invalidated(timers) == IF timers > 0 THEN timers - 1 ELSE timers

\* SithWindow._start_text_color_animation(new_color): an earlier animation
\* timer is invalidated, previous_text_color is set to the target at once and
\* a repeating timer (1/30 s) for stepColorAnimation_ is scheduled; the
\* labels keep the colour they show
start_text_color_animation(new_color) ==
    /\ color_anim_timer' = Invalidated(color_anim_timer) + 1
    /\ color_anim_from' = IF previous_text_color # NoColor THEN previous_text_color
                          ELSE label_color
    /\ color_anim_to' = new_color
    /\ previous_text_color' = new_color
    /\ UNCHANGED label_color

\* SithWindow.updateTimer_, "Update UI" (main.py 475-507), for the
\* self.is_working this tick has set; an exception in track_recent_app left
\* updateTimer_ before it
UpdateUI ==
    LET text_color == hex_to_nscolor(IF is_working' THEN GLASS_WORKING_COLOR
                                     ELSE GLASS_INACTIVE_COLOR)
        color_changed == previous_text_color = NoColor \/ text_color # previous_text_color
    IN IF last_tick'.raised
       THEN UNCHANGED display
       ELSE IF color_changed
            THEN IF color_animation_enabled
                 THEN start_text_color_animation(text_color)
                 ELSE /\ label_color' = text_color
                      /\ previous_text_color' = text_color
                      /\ UNCHANGED <<color_anim_timer, color_anim_from, color_anim_to>>
            ELSE /\ label_color' = text_color
                 /\ UNCHANGED <<previous_text_color, color_anim_timer, color_anim_from,
                                color_anim_to>>

\* SithWindow._rgba_lerp(c1, c2, t) = c1 + (c2 - c1) * t in every component,
\* at t = 1/2 (a step in the middle of the animation)
rgba_lerp(rgba_from, rgba_to) ==
    [rgb |-> [i \in 1..3 |-> rgba_from.rgb[i] + (rgba_to.rgb[i] - rgba_from.rgb[i]) \div 2],
     alpha |-> rgba_from.alpha + (rgba_to.alpha - rgba_from.alpha) \div 2]

\* SithWindow.stepColorAnimation_, fired by the animation timer; done tells
\* whether the time since the animation started has reached
\* color_anim_duration (t >= 1.0)
stepColorAnimation_(done) ==
    /\ proc = "running"
    /\ color_anim_timer > 0
    /\ IF done
       THEN /\ color_anim_timer' = Invalidated(color_anim_timer)
            /\ label_color' = previous_text_color
       ELSE /\ label_color' = rgba_lerp(color_anim_from, color_anim_to)
            /\ UNCHANGED color_anim_timer
    /\ UNCHANGED <<previous_text_color, color_anim_from, color_anim_to>>
    /\ UNCHANGED <<session, summary, last_tracked_app, settings_window, globals,
                   DEFAULT_allowlist, configFile, summaryFile, date, proc, startup, disk,
                   alert, windows, on_screen, DEFAULT_colors, glass, refresh_timers,
                   color_animation_enabled, counts, events, last_tick>>

\* SithWindow.minimizeToStatusBar_, an item of the main window's context menu
minimizeToStatusBar_ ==
    /\ proc = "running"
    /\ window_visible
    /\ status_item' = TRUE
    /\ window_visible' = FALSE
    /\ UNCHANGED <<summary_window, guide_window>>
    /\ UNCHANGED <<session, summary, last_tracked_app, settings_window, globals,
                   DEFAULT_allowlist, configFile, summaryFile, date, proc, startup, disk,
                   alert, on_screen, DEFAULT_colors, glass, display, refresh_timers,
                   color_animation_enabled, counts, events, last_tick>>

\* a faulty toggleWindowVisibility_ that keeps the status bar item
toggleWindowVisibility_keeping ==
    /\ proc = "running"
    /\ status_item
    /\ window_visible' = ~window_visible
    /\ UNCHANGED <<status_item, summary_window, guide_window>>
    /\ UNCHANGED <<session, summary, last_tracked_app, settings_window, globals,
                   DEFAULT_allowlist, configFile, summaryFile, date, proc, startup, disk,
                   alert, on_screen, DEFAULT_colors, glass, display, refresh_timers,
                   color_animation_enabled, counts, events, last_tick>>

\* SithWindow.toggleWindowVisibility_, the "Show Window" item of the status
\* bar item's menu
toggleWindowVisibility_ ==
    /\ proc = "running"
    /\ status_item
    /\ IF window_visible
       THEN window_visible' = FALSE /\ UNCHANGED status_item
       ELSE window_visible' = TRUE /\ status_item' = FALSE
    /\ UNCHANGED <<summary_window, guide_window>>
    /\ UNCHANGED <<session, summary, last_tracked_app, settings_window, globals,
                   DEFAULT_allowlist, configFile, summaryFile, date, proc, startup, disk,
                   alert, on_screen, DEFAULT_colors, glass, display, refresh_timers,
                   color_animation_enabled, counts, events, last_tick>>

\* a faulty toggleSummary_ whose close writes the summary file
toggleSummary_saving ==
    /\ proc = "running"
    /\ IF summary_window = "visible"
       THEN /\ \E called \in DelegateOutcomes : summary_window' = Tracked(called)
            /\ on_screen' = [on_screen EXCEPT !.summary = @ - 1]
            /\ summaryFile' = save_summary(summary)
       ELSE /\ summary_window' = "visible"
            /\ on_screen' = [on_screen EXCEPT !.summary = @ + 1]
            /\ UNCHANGED summaryFile
    /\ UNCHANGED <<guide_window, window_visible, status_item>>
    /\ UNCHANGED <<session, summary, last_tracked_app, settings_window, globals,
                   DEFAULT_allowlist, configFile, date, proc, startup, disk,
                   alert, DEFAULT_colors, glass, display, refresh_timers,
                   color_animation_enabled, counts, events, last_tick>>

\* SithWindow.toggleSummary_ and on_summary_closed: the visible summary
\* window is closed (as its close button closes it), or a new one is created
toggleSummary_ ==
    /\ proc = "running"
    /\ IF summary_window = "visible"
       THEN /\ \E called \in DelegateOutcomes : summary_window' = Tracked(called)
            /\ on_screen' = [on_screen EXCEPT !.summary = @ - 1]
       ELSE /\ summary_window' = "visible"
            /\ on_screen' = [on_screen EXCEPT !.summary = @ + 1]
    /\ UNCHANGED <<guide_window, window_visible, status_item>>
    /\ UNCHANGED <<session, summary, last_tracked_app, settings_window, globals,
                   DEFAULT_allowlist, configFile, summaryFile, date, proc, startup, disk,
                   alert, DEFAULT_colors, glass, display, refresh_timers,
                   color_animation_enabled, counts, events, last_tick>>

\* SithWindow.toggleGuide_ and on_guide_closed: the visible guide window is
\* closed (as its close button closes it), or a new one is created
toggleGuide_ ==
    /\ proc = "running"
    /\ IF guide_window = "visible"
       THEN /\ \E called \in DelegateOutcomes : guide_window' = Tracked(called)
            /\ on_screen' = [on_screen EXCEPT !.guide = @ - 1]
       ELSE /\ guide_window' = "visible"
            /\ on_screen' = [on_screen EXCEPT !.guide = @ + 1]
    /\ UNCHANGED <<summary_window, window_visible, status_item>>
    /\ UNCHANGED <<session, summary, last_tracked_app, settings_window, globals,
                   DEFAULT_allowlist, configFile, summaryFile, date, proc, startup, disk,
                   alert, DEFAULT_colors, glass, display, refresh_timers,
                   color_animation_enabled, counts, events, last_tick>>

\* the calendar date changes while the process runs (datetime.date.today())
Midnight ==
    /\ proc = "running"
    /\ events < MaxEvents
    /\ events' = events + 1
    /\ date' = date + 1
    /\ UNCHANGED last_tick
    /\ UNCHANGED <<session, summary, last_tracked_app, settings_window, globals,
                   DEFAULT_allowlist, configFile, summaryFile, proc, startup, disk, screen,
                   refresh_timers, color_animation_enabled,
                   counts>>

\* a faulty reset that also clears today's entry of the summary
resetTimer_clearing_today ==
    /\ proc = "running"
    /\ worked_seconds' = 0
    /\ since_reset' = 0
    /\ summary' = [summary EXCEPT ![today] = NewDay]
    /\ UNCHANGED <<is_working, current_app, last_tracked_app, settings_window, globals,
                   DEFAULT_allowlist, configFile, summaryFile, date, proc, startup, disk, screen,
                   refresh_timers, color_animation_enabled,
                   ticks, events, last_tick>>

\* SithWindow.resetTimer_
resetTimer_ ==
    /\ proc = "running"
    /\ worked_seconds' = 0
    /\ since_reset' = 0
    /\ UNCHANGED last_tick
    /\ UNCHANGED <<is_working, current_app, summary, last_tracked_app, settings_window,
                   globals, DEFAULT_allowlist, configFile, summaryFile, date, proc,
                   startup, disk, screen,
                   refresh_timers, color_animation_enabled, ticks, events>>

\* SithWindow.on_close: save_summary, then NSApp.terminate_.  A failed mkdir or
\* write_text raises: the file is left as it was and terminate_ is not
\* reached.  terminate_ ends the process: its memory and its timers are gone,
\* the files and the history remain.
on_close(io) ==
    /\ proc = "running"
    /\ io # "read_fails"
    /\ Fault(io)
    /\ IF io = "ok"
       THEN /\ summaryFile' = save_summary(summary)
            /\ proc' = "terminated"
            /\ worked_seconds' = 0
            /\ is_working' = FALSE
            /\ current_app' = None
            /\ summary' = EmptyDict
            /\ last_tracked_app' = None
            /\ settings_window' = NoSettings
            /\ ALLOWLIST' = {}
            /\ IDLE_THRESHOLD' = 0
            /\ since_reset' = 0
            /\ last_tick' = NoTick
            /\ refresh_timers' = 0
            /\ color_animation_enabled' = TRUE
            /\ Destroy
       ELSE UNCHANGED <<summaryFile, proc, session, summary, last_tracked_app,
                        settings_window, ALLOWLIST, IDLE_THRESHOLD, since_reset,
                        last_tick, refresh_timers, color_animation_enabled,
                        windows, on_screen, display>>
    /\ UNCHANGED <<UPDATE_INTERVAL, DEFAULT_allowlist, configFile, date, startup, disk,
                   alert, DEFAULT_colors, glass, ticks>>

\* SithWindow.quitApp_ (the Quit item of the context menu and of the status
\* bar menu)
quitApp_ == \E io \in IOOutcomes : on_close(io)

\* SithWindow.windowShouldClose_ for the main window
windowShouldClose_ == \E io \in IOOutcomes : on_close(io)

\* ------------------------------------------------------ settings_window.py
ADD_BUTTONS_MAX == 3

\* [app for app in recent_apps_all if app not in allowlist][:3]
RecentNotAllowed(config) ==
    LET allowlist == Get(config, "allowlist", <<>>)
        NotAllowed(app) == ~Contains(allowlist, app)
    IN Prefix(SelectSeq(Get(config, "recent_apps", <<>>), NotAllowed), ADD_BUTTONS_MAX)

\* buildUI / rebuildAllowlist: the buttons created for self.config
buildUI(ctl) ==
    [ctl EXCEPT !.add_buttons = RecentNotAllowed(ctl.config),
                !.remove_buttons = Get(ctl.config, "allowlist", <<>>),
                !.idle_field_valid = TRUE]

\* refreshWindow: self.config = load_config(), then buildUI
refreshWindow(ctl, file, defaults, readOK) ==
    LET cfg == load_config(file, defaults, readOK)
    IN buildUI([ctl EXCEPT !.config = cfg.doc, !.shared = cfg.shared,
                            !.shared_colors = cfg.shared_colors])

\* SettingsController.init and createWindow
create_settings_controller(file, defaults, readOK) ==
    LET cfg == load_config(file, defaults, readOK)
        ctl == buildUI([NoSettings EXCEPT !.open = TRUE, !.config = cfg.doc,
                                          !.shared = cfg.shared,
                                          !.shared_colors = cfg.shared_colors])
    IN [ctl EXCEPT !.last_recent_apps = RecentNotAllowed(ctl.config)]

\* a faulty reloadConfig that leaves the globals as they are
reloadConfig_keeping(file, defaults, readOK) ==
    [ALLOWLIST |-> ALLOWLIST, IDLE_THRESHOLD |-> IDLE_THRESHOLD,
     GLASS_WORKING_COLOR |-> GLASS_WORKING_COLOR,
     GLASS_INACTIVE_COLOR |-> GLASS_INACTIVE_COLOR,
     UPDATE_INTERVAL |-> UPDATE_INTERVAL,
     color_animation_enabled |-> color_animation_enabled]

\* a faulty reloadConfig that also assigns the global UPDATE_INTERVAL
reloadConfig_interval(file, defaults, readOK) ==
    [ALLOWLIST |-> get_config(file, defaults, readOK).ALLOWLIST,
     IDLE_THRESHOLD |-> get_config(file, defaults, readOK).IDLE_THRESHOLD,
     GLASS_WORKING_COLOR |-> get_config(file, defaults, readOK).GLASS_WORKING_COLOR,
     GLASS_INACTIVE_COLOR |-> get_config(file, defaults, readOK).GLASS_INACTIVE_COLOR,
     UPDATE_INTERVAL |-> get_config(file, defaults, readOK).UPDATE_INTERVAL,
     color_animation_enabled |->
        Get(load_config(file, defaults, readOK).doc, "enable_color_animation", TRUE)]

\* SithWindow.reloadConfig: the globals after it.  It assigns those its global
\* statement names from get_config(); UPDATE_INTERVAL is not among them and
\* keeps the value of the import.
reloadConfig(file, defaults, readOK) ==
    [ALLOWLIST |-> get_config(file, defaults, readOK).ALLOWLIST,
     IDLE_THRESHOLD |-> get_config(file, defaults, readOK).IDLE_THRESHOLD,
     GLASS_WORKING_COLOR |-> get_config(file, defaults, readOK).GLASS_WORKING_COLOR,
     GLASS_INACTIVE_COLOR |-> get_config(file, defaults, readOK).GLASS_INACTIVE_COLOR,
     UPDATE_INTERVAL |-> UPDATE_INTERVAL,
     color_animation_enabled |->
        Get(load_config(file, defaults, readOK).doc, "enable_color_animation", TRUE)]

\* saveConfig, followed by refreshWindow when refresh is TRUE, in a handler
\* that has changed self.config to ctl.config and the nested objects of
\* DEFAULT_CONFIG to defAllow and defColors.  saveConfig writes the whole of
\* self.config and calls reloadConfig; a failed write raises out of the
\* handler before either.
Saved(ctl, defAllow, defColors, refresh, io) ==
    LET defaults == DefaultConfigWith(defAllow, defColors)
        reloaded == reloadConfig(ctl.config, defaults, io = "ok")
    IN /\ DEFAULT_allowlist' = defAllow
       /\ DEFAULT_colors' = defColors
       /\ IF io = "write_raises"
          THEN /\ settings_window' = ctl
               /\ UNCHANGED <<configFile, globals, glass, color_animation_enabled>>
          ELSE /\ configFile' = ctl.config
               /\ color_animation_enabled' = reloaded.color_animation_enabled
               /\ ALLOWLIST' = reloaded.ALLOWLIST
               /\ IDLE_THRESHOLD' = reloaded.IDLE_THRESHOLD
               /\ GLASS_WORKING_COLOR' = reloaded.GLASS_WORKING_COLOR
               /\ GLASS_INACTIVE_COLOR' = reloaded.GLASS_INACTIVE_COLOR
               /\ UPDATE_INTERVAL' = reloaded.UPDATE_INTERVAL
               /\ settings_window' =
                     IF refresh
                     THEN refreshWindow(ctl, ctl.config, defaults, io = "ok")
                     ELSE ctl
       /\ UNCHANGED <<session, summary, last_tracked_app, summaryFile, date, proc,
                      startup, disk, alert, windows, on_screen, display,
                      refresh_timers, counts, last_tick>>

\* A settings handler that has changed self.config to ctl.config (and the
\* list object of the default allowlist to defAllow) and then calls
\* saveConfig, followed by refreshWindow when refresh is TRUE.  The edit is
\* one of the counted events.
SaveAndRefresh(ctl, defAllow, refresh, io) ==
    /\ events < MaxEvents
    /\ events' = events + 1
    /\ Saved(ctl, defAllow, DEFAULT_colors, refresh, io)

\* a handler that returns without changing anything
NoChange(io) ==
    /\ io = "ok"
    /\ UNCHANGED last_tick
    /\ UNCHANGED <<session, summary, last_tracked_app, settings_window, globals,
                   DEFAULT_allowlist, configFile, summaryFile, date, proc, startup, disk, screen,
                   refresh_timers, color_animation_enabled,
                   counts, events>>

\* SithWindow.toggleSettings_: close the visible settings window, or create a
\* controller and keep it.  createWindow schedules the controller's refresh
\* timer (settings_window.py 114) and makes the controller the window's
\* delegate (111); toggleSettings_ then replaces the delegate by a
\* WindowDelegate (main.py 706-707), so that closing the window calls
\* on_settings_closed at most and not SettingsController.windowWillClose_,
\* the only code that invalidates the timer.  An exception in
\* create_settings_controller (mkdir) is caught and leaves settings_window
\* as it was.  Closing (by the menu item or by the window's close button) is
\* one of the counted events: every close leaves a timer behind.
toggleSettings_(io) ==
    /\ proc = "running"
    /\ IF settings_window.open
       THEN /\ io = "ok"
            /\ events < MaxEvents
            /\ events' = events + 1
            /\ \E called \in DelegateOutcomes :
                  settings_window' = TrackedSettings(called)
            /\ on_screen' = [on_screen EXCEPT !.settings = @ - 1]
            /\ UNCHANGED refresh_timers
       ELSE /\ Fault(io)
            /\ settings_window' =
                  IF io = "write_raises"
                  THEN settings_window
                  ELSE create_settings_controller(configFile, DEFAULT_CONFIG, io = "ok")
            /\ on_screen' =
                  IF io = "write_raises" THEN on_screen
                  ELSE [on_screen EXCEPT !.settings = @ + 1]
            /\ refresh_timers' =
                  IF io = "write_raises" THEN refresh_timers ELSE refresh_timers + 1
    /\ UNCHANGED last_tick
    /\ UNCHANGED <<session, summary, last_tracked_app, globals, DEFAULT_allowlist,
                   configFile, summaryFile, date, proc, startup, disk, alert, windows,
                   DEFAULT_colors, glass, display, counts, color_animation_enabled>>

\* SettingsController.addApp_: sender is one of the "Add app" buttons
addApp_(app_name, io) ==
    /\ proc = "running"
    /\ settings_window.open
    /\ Contains(settings_window.add_buttons, app_name)
    /\ LET allowlist == Get(settings_window.config, "allowlist", <<>>)
       IN IF ~Contains(allowlist, app_name)
          THEN SaveAndRefresh([settings_window EXCEPT
                                  !.config = Put(settings_window.config, "allowlist",
                                                 Append(allowlist, app_name))],
                              IF settings_window.shared
                              THEN Append(DEFAULT_allowlist, app_name)
                              ELSE DEFAULT_allowlist,
                              TRUE, io)
          ELSE NoChange(io)

\* list.pop(index) for a 0-based index
Pop(s, index) == SubSeq(s, 1, index) \o SubSeq(s, index + 2, Len(s))

\* SettingsController.removeApp_: sender is one of the "-" buttons, tag its index
removeApp_(index, io) ==
    /\ proc = "running"
    /\ settings_window.open
    /\ index \in 0..(Len(settings_window.remove_buttons) - 1)
    /\ LET allowlist == Get(settings_window.config, "allowlist", <<>>)
       IN IF "allowlist" \in DOMAIN settings_window.config /\ index < Len(allowlist)
          THEN SaveAndRefresh([settings_window EXCEPT
                                  !.config = Put(settings_window.config, "allowlist",
                                                 Pop(allowlist, index))],
                              IF settings_window.shared
                              THEN Pop(DEFAULT_allowlist, index)
                              ELSE DEFAULT_allowlist,
                              TRUE, io)
          ELSE NoChange(io)

\* the unit popup: seconds, minutes, hours
multipliers == <<1, 60, 3600>>
\* what the idle field may hold: an integer, or text that int() rejects
IdleFields == {[valid |-> TRUE, value |-> 2], [valid |-> FALSE, value |-> 0]}
UnitIndexes == {0, 1}

\* settings_window.py 425-426: int() raised ValueError and the handler passes.
\* The idle field keeps the text the user typed; the attempt is one of the
\* counted events.
InvalidIgnored(io) ==
    /\ io = "ok"
    /\ events < MaxEvents
    /\ events' = events + 1
    /\ settings_window' = [settings_window EXCEPT !.idle_field_valid = FALSE]
    /\ UNCHANGED last_tick
    /\ UNCHANGED <<session, summary, last_tracked_app, globals, DEFAULT_allowlist,
                   configFile, summaryFile, date, proc, startup, disk, screen,
                   refresh_timers, color_animation_enabled, counts>>

\* SettingsController.idleTimeoutChanged_: the action of the idle field and of
\* the unit popup; field is the text the idle field holds
idleTimeoutChanged_(field, unit_index, io) ==
    /\ proc = "running"
    /\ settings_window.open
    /\ IF field.valid
       THEN SaveAndRefresh([settings_window EXCEPT
                               !.config = Put(settings_window.config, "idle_threshold",
                                              field.value * multipliers[unit_index + 1]),
                               !.idle_field_valid = TRUE],
                           DEFAULT_allowlist, FALSE, io)
       ELSE InvalidIgnored(io)

\* SettingsController.colorAnimationChanged_: a click on the checkbox, which
\* shows the negation of what the click sets
colorAnimationChanged_(io) ==
    /\ proc = "running"
    /\ settings_window.open
    /\ LET enabled == ~Get(settings_window.config, "enable_color_animation", TRUE)
       IN SaveAndRefresh([settings_window EXCEPT
                             !.config = Put(settings_window.config,
                                            "enable_color_animation", enabled)],
                         DEFAULT_allowlist, FALSE, io)

\* SettingsController.activeColorChanged_ and idleColorChanged_: the colour
\* well's colour is stored under key in self.config["colors"], which is the
\* dict of DEFAULT_CONFIG when load_config found no "colors" in the file.
\* A colour picked twice changes nothing the second time, so only a failed
\* write is counted as an event.
ColorChanged(key, hex_color, io) ==
    /\ proc = "running"
    /\ settings_window.open
    /\ Fault(io)
    /\ LET present == "colors" \in DOMAIN settings_window.config
           colors == Put(Get(settings_window.config, "colors", EmptyDict), key, hex_color)
       IN Saved([settings_window EXCEPT
                    !.config = Put(settings_window.config, "colors", colors),
                    !.shared_colors = present /\ settings_window.shared_colors],
                DEFAULT_allowlist,
                IF present /\ settings_window.shared_colors THEN colors
                ELSE DEFAULT_colors,
                FALSE, io)
activeColorChanged_(hex_color, io) == ColorChanged("glass_working", hex_color, io)
idleColorChanged_(hex_color, io) == ColorChanged("glass_inactive", hex_color, io)

\* SettingsController.resetToDefault_
resetToDefault_(io) ==
    /\ proc = "running"
    /\ settings_window.open
    /\ SaveAndRefresh([settings_window EXCEPT
                          !.config = Put(DEFAULT_CONFIG, "recent_apps",
                                         Get(settings_window.config, "recent_apps", <<>>)),
                          !.shared = TRUE, !.shared_colors = TRUE],
                      DEFAULT_allowlist, TRUE, io)

\* SettingsController.refreshRecentApps_, fired by the refresh timer of the
\* visible settings window
refreshRecentApps_ ==
    /\ proc = "running"
    /\ settings_window.open
    /\ LET recent_apps == RecentNotAllowed(load_config(configFile, DEFAULT_CONFIG, TRUE).doc)
       IN IF recent_apps # settings_window.last_recent_apps
          THEN settings_window' =
                   refreshWindow([settings_window EXCEPT !.last_recent_apps = recent_apps],
                                 configFile, DEFAULT_CONFIG, TRUE)
          ELSE UNCHANGED settings_window
    /\ UNCHANGED last_tick
    /\ UNCHANGED <<session, summary, last_tracked_app, globals, DEFAULT_allowlist,
                   configFile, summaryFile, date, proc, startup, disk, screen,
                   refresh_timers, color_animation_enabled, counts, events>>

\* SettingsController.refreshRecentApps_ fired by the timer of a controller
\* whose window was closed: it reads the config file and may rebuild that
\* controller's hidden window, and changes nothing else
refreshRecentApps_closed ==
    /\ proc = "running"
    /\ refresh_timers > (IF settings_window.open THEN 1 ELSE 0)
    /\ UNCHANGED vars

\* ------------------------------------------------------------ next-state
\* a tick as Spec follows it: the classification, the tracking and the
\* accumulation; nothing of these reads the labels' colours, which Spec
\* leaves to DisplaySpec
Tick ==
    \E front \in FrontOutcomes, idle \in IdleOutcomes, io \in IOOutcomes :
        updateTimer_(front, idle, io) /\ UNCHANGED display
ToggleSettings == \E io \in SettingsIO : toggleSettings_(io)
AddApp == \E app_name \in AppNames, io \in SettingsIO : addApp_(app_name, io)
RemoveApp == \E index \in 0..Cardinality(AppNames), io \in SettingsIO : removeApp_(index, io)
IdleTimeoutChanged ==
    \E field \in IdleFields, unit_index \in UnitIndexes, io \in SettingsIO :
        idleTimeoutChanged_(field, unit_index, io)
ResetToDefault == \E io \in SettingsIO : resetToDefault_(io)
ColorAnimationChanged == \E io \in SettingsIO : colorAnimationChanged_(io)

Next ==
    \/ Tick
    \/ Midnight
    \/ resetTimer_
    \/ quitApp_
    \/ windowShouldClose_
    \/ ToggleSettings
    \/ AddApp
    \/ RemoveApp
    \/ IdleTimeoutChanged
    \/ ResetToDefault
    \/ ColorAnimationChanged
    \/ refreshRecentApps_
    \/ refreshRecentApps_closed

Spec == Init /\ [][Next]_vars

\* the process from before its start to its end, without a tick in between
Start == \E io \in SettingsIO : main(io)
NextStart ==
    \/ Start
    \/ quitApp_
    \/ windowShouldClose_
StartSpec == Stopped /\ [][NextStart]_vars

\* the settings window on a config file without "allowlist" and "colors":
\* the allowlist, the colours and the reset, with the ticks in between
ActiveColorChanged ==
    \E hex_color \in PickedColors, io \in SettingsIO : activeColorChanged_(hex_color, io)
IdleColorChanged ==
    \E hex_color \in PickedColors, io \in SettingsIO : idleColorChanged_(hex_color, io)
InitConfig ==
    Started(OlderConfigFiles, {f \in StartupSummaryFiles : f.kind = "absent"})
NextConfig ==
    \/ Tick
    \/ ToggleSettings
    \/ AddApp
    \/ RemoveApp
    \/ ResetToDefault
    \/ ActiveColorChanged
    \/ IdleColorChanged
    \/ refreshRecentApps_
ConfigSpec == InitConfig /\ [][NextConfig]_vars

\* the windows and the status bar item, with the ticks, the timer reset and
\* the settings window's reset button in between
NextWindows ==
    \/ Tick
    \/ resetTimer_
    \/ ToggleSettings
    \/ ResetToDefault
    \/ toggleSummary_
    \/ toggleGuide_
    \/ minimizeToStatusBar_
    \/ toggleWindowVisibility_
    \/ quitApp_
\* started on a summary file that holds earlier time
InitWindows == Init /\ summaryFile.kind = "json"
WindowSpec == InitWindows /\ [][NextWindows]_vars

\* the labels of the main window: the whole update tick, "Update UI"
\* included, the steps of the colour animation timer, and the settings
\* window's animation checkbox
UpdateTick ==
    \E front \in FrontOutcomes, idle \in IdleOutcomes, io \in IOOutcomes :
        updateTimer_(front, idle, io) /\ UpdateUI
StepColorAnimation == \E done \in BOOLEAN : stepColorAnimation_(done)
NextDisplay ==
    \/ UpdateTick
    \/ StepColorAnimation
    \/ ToggleSettings
    \/ ColorAnimationChanged
DisplaySpec == Init /\ [][NextDisplay]_vars

\* ------------------------------------------------------------ properties
\* the tick steps: updateTimer_ with the outcomes it saw (the first conjunct
\* follows from updateTimer_ and is cheap to decide)
TickInputs == FrontOutcomes \X IdleOutcomes \X IOOutcomes
TickWith(in) ==
    /\ last_tick'.app_name = AppName(in[1])
    /\ updateTimer_(in[1], in[2], in[3])
\* the frontmost application is in the allowlist and the user is not idle
WorkingInputs(in) ==
    /\ AppName(in[1]) \in ALLOWLIST
    /\ get_idle_seconds(in[2]) < IDLE_THRESHOLD * 1000
\* updateTimer_ reached its classification and found Working
ClassifiedWorking == ~last_tick'.raised /\ is_working'

\* C1: for every day key of the in-memory summary, total is the sum of the
\* by_app values, in every reachable state, provided it is so for the summary
\* loaded at startup.
SumInvariant(s) == \A d \in DOMAIN s : s[d].total = SumValues(s[d].by_app)
C1_TotalIsSumOfByApp == SumInvariant(loaded) => SumInvariant(summary)
\* two applications accumulated, the allowlist was edited, the timer was reset
C1_Witness ==
    /\ proc = "running"
    /\ ticks["Sith"] > 0 /\ ticks["Code"] > 0
    /\ "Code" \in ALLOWLIST
    /\ worked_seconds = 0
    /\ DOMAIN summary[today].by_app = {"Sith", "Code"}

\* C2: every tick sets is_working to exactly (app_name in allowlist) and
\* (idle_seconds < idle_threshold), whatever earlier ticks left behind.
C2_EveryTickClassifies ==
    [][\A in \in TickInputs : TickWith(in) => (is_working' = WorkingInputs(in))]_vars

\* C3: a tick on which the user is idle or the frontmost application is not in
\* the allowlist sets is_working to False and leaves worked_seconds,
\* current_app and every entry of the summary unchanged.
C3_NonWorkingTick ==
    [][\A in \in TickInputs :
          ~WorkingInputs(in) /\ TickWith(in)
          => ~is_working' /\ UNCHANGED <<worked_seconds, current_app, summary>>]_vars

\* C4: a tick classified Working in application A adds the tick interval d to
\* worked_seconds, to the total and to by_app[A] (from 0 if absent) of the
\* entry self.today names, and changes nothing else of the summary; after n
\* Working ticks, all in A, from an empty day entry, total = by_app[A] = n*d.
WorkingTickAdds(A, d) ==
    LET old == summary[today]
        new == summary'[today]
    IN /\ worked_seconds' = worked_seconds + d
       /\ DOMAIN summary' = DOMAIN summary
       /\ \A day \in DOMAIN summary \ {today} : summary'[day] = summary[day]
       /\ new.total = old.total + d
       /\ DOMAIN new.by_app = DOMAIN old.by_app \cup {A}
       /\ new.by_app[A] = Get(old.by_app, A, 0) + d
       /\ \A b \in DOMAIN old.by_app \ {A} : new.by_app[b] = old.by_app[b]
OnlyTicksIn(A) == ticks[A] > 0 /\ \A b \in OSNames \ {A} : ticks[b] = 0
FromEmptyDay(A) ==
    (proc = "running" /\ today \notin DOMAIN loaded /\ OnlyTicksIn(A))
    => /\ summary[today].total = ticks[A] * UPDATE_INTERVAL
       /\ summary[today].by_app = (A :> ticks[A] * UPDATE_INTERVAL)
C4_WorkingTickAddsInterval ==
    /\ [](\A A \in OSNames : FromEmptyDay(A))
    /\ [][ClassifiedWorking
          => \A in \in TickInputs :
                TickWith(in) => WorkingTickAdds(AppName(in[1]), UPDATE_INTERVAL)]_vars
\* two Working ticks in Code, from an empty day entry
C4_Witness ==
    /\ proc = "running"
    /\ today \notin DOMAIN loaded
    /\ OnlyTicksIn("Code") /\ ticks["Code"] >= 2
    /\ worked_seconds = ticks["Code"] * UPDATE_INTERVAL

\* C5: a Working tick on calendar date D accumulates into the summary entry
\* keyed D (created if absent), also after the date has changed while the
\* process runs.
C5_AccumulatesUnderCurrentDate ==
    [][\A in \in TickInputs :
          ClassifiedWorking /\ TickWith(in)
          => /\ date \in DOMAIN summary'
             /\ summary'[date].total = Get(summary, date, NewDay).total + UPDATE_INTERVAL]_vars

\* C6: resetTimer_ sets worked_seconds to 0 and leaves the in-memory summary,
\* the summary file, the configuration and is_working unchanged.  A reset is
\* the step of a running process that ends the count of Working ticks since
\* the last reset; between resets worked_seconds is that count times the
\* interval.
ResetStep == proc' = "running" /\ since_reset > 0 /\ since_reset' = 0
C6_ResetOnlyZeroesSession ==
    /\ [](worked_seconds = since_reset * UPDATE_INTERVAL)
    /\ [][ResetStep
          => /\ worked_seconds' = 0
             /\ UNCHANGED <<summary, summaryFile, configFile, globals, is_working>>]_vars
\* a reset after accumulated time, while is_working is still True
C6_Witness ==
    /\ proc = "running"
    /\ Ticks > 0 /\ since_reset = 0 /\ worked_seconds = 0
    /\ is_working
    /\ summary[today].total > Get(loaded, today, NewDay).total

\* C7: a tick on which the frontmost application is not detected ("(unknown)")
\* is classified not working and accumulates nothing, under every allowlist
\* the settings window can produce; "(unknown)" is never in recent_apps, never
\* on an "Add app" button and never in an allowlist.
UnknownNowhere ==
    /\ ~Contains(Get(configFile, "recent_apps", <<>>), UNKNOWN)
    /\ ~Contains(Get(configFile, "allowlist", <<>>), UNKNOWN)
    /\ ~Contains(Get(settings_window.config, "recent_apps", <<>>), UNKNOWN)
    /\ ~Contains(Get(settings_window.config, "allowlist", <<>>), UNKNOWN)
    /\ ~Contains(settings_window.add_buttons, UNKNOWN)
    /\ ~Contains(DEFAULT_allowlist, UNKNOWN)
    /\ UNKNOWN \notin ALLOWLIST
Undetected == {in \in TickInputs : AppName(in[1]) = UNKNOWN}
C7_UnknownNeverWorks ==
    /\ []UnknownNowhere
    /\ [][last_tick'.app_name = UNKNOWN
          => \/ /\ ~is_working' /\ ~last_tick'.raised
                /\ UNCHANGED <<worked_seconds, summary, configFile, counts>>
             \/ \A in \in Undetected : ~TickWith(in)]_vars
\* the last tick did not detect the application, after the settings window
\* had changed the allowlist and time had been accumulated
C7_Witness ==
    /\ proc = "running"
    /\ last_tick.app_name = UNKNOWN
    /\ ALLOWLIST # {"Sith"}
    /\ Ticks > 0
    /\ ~is_working

\* C8: a failed OS query never halts the loop: the failed frontmost query
\* gives no name, the failed idle query gives 0, the tick completes without
\* raising, and the process keeps running for the next tick.
QueryFailed(in) == in[1] = FAIL \/ in[2].fail
C8_QueryFailureTickCompletes ==
    [][\A in \in TickInputs :
          QueryFailed(in) /\ TickWith(in)
          => /\ in[1] = FAIL => get_frontmost_app_name(in[1]) = None
             /\ in[2].fail => get_idle_seconds(in[2]) = 0
             /\ ~last_tick'.raised
             /\ proc' = "running"]_vars

\* C9: no failure of a config or summary file operation propagates out of the
\* function it happens in; in particular no tick is aborted by a failed config
\* write.
C9_NoTickAbortedByFileFailure ==
    [][\A in \in TickInputs : TickWith(in) => ~last_tick'.raised]_vars

\* C10: when the process terminates through on_close (quitApp_, or the main
\* window closing), the summary file holds the in-memory summary of that
\* moment: every day loaded at startup is still there, and for every
\* application the file's time over all days is the loaded time plus the
\* interval for each Working tick of the session.  No terminated state has a
\* summary file without that content.
ByAppOverDays(s, a) == SumValues([d \in DOMAIN s |-> Get(s[d].by_app, a, 0)])
HoldsSession(file) ==
    /\ file.kind = "json"
    /\ DOMAIN loaded \subseteq DOMAIN file.data
    /\ \A a \in OSNames :
          ByAppOverDays(file.data, a) = ByAppOverDays(loaded, a) + ticks[a] * UPDATE_INTERVAL
C10_ShutdownPersistsSummary ==
    /\ [](proc = "terminated" => HoldsSession(summaryFile))
    /\ [][proc = "running" /\ proc' = "terminated"
          => summaryFile'.kind = "json" /\ summaryFile'.data = summary]_vars
\* terminated with time of this session in the file, on top of loaded time
C10_Witness ==
    /\ proc = "terminated"
    /\ Ticks > 0
    /\ today \in DOMAIN loaded
    /\ summaryFile.data[today].total = loaded[today].total + Ticks * UPDATE_INTERVAL

\* C11: load_summary returns {} without raising when the summary file is
\* absent and when it cannot be parsed, and the parsed content otherwise; the
\* start of the application with the returned value succeeds (no file
\* operation failing).
C11_LoadSummaryThenStart ==
    [][main("ok")
       => /\ summaryFile.kind \in {"absent", "unparseable"} => loaded' = EmptyDict
          /\ summaryFile.kind \notin {"absent", "unparseable"} => loaded' = summaryFile.data
          /\ proc' = "running"]_vars

\* C12: starting the application on a well-formed summary file and quitting it
\* with no tick in between leaves the summary file holding the mapping it
\* held before.
C12_LoadSaveRoundTrip ==
    [][(proc = "running" /\ proc' = "terminated" /\ Ticks = 0
        /\ summaryFile.kind = "json")
       => summaryFile'.kind = "json" /\ summaryFile'.data = summaryFile.data]_vars

\* C13: for a config file that is a JSON object with any subset of the known
\* keys, load_config returns a document with every key of the defaults, the
\* file's value for a key of the file and the default value for any other;
\* the globals of a started process are read from that document.
MergedOverDefaults(doc, file, defaults) ==
    /\ DOMAIN defaults \subseteq DOMAIN doc
    /\ \A k \in DOMAIN file : doc[k] = file[k]
    /\ \A k \in DOMAIN defaults \ DOMAIN file : doc[k] = defaults[k]
C13_LoadConfigMerges ==
    configKind = "json"
    => /\ MergedOverDefaults(load_config(configFile, DEFAULT_CONFIG, TRUE).doc,
                             configFile, DEFAULT_CONFIG)
       /\ proc = "running"
          => /\ ALLOWLIST = IF "allowlist" \in DOMAIN configFile
                            THEN Range(configFile.allowlist)
                            ELSE Range(DEFAULT_allowlist)
             /\ IDLE_THRESHOLD = IF "idle_threshold" \in DOMAIN configFile
                                 THEN configFile.idle_threshold ELSE 2
             /\ UPDATE_INTERVAL = IF "update_interval" \in DOMAIN configFile
                                  THEN configFile.update_interval ELSE 125
\* started on a file that has an idle threshold and no allowlist
C13_Witness ==
    /\ proc = "running"
    /\ configKind = "json"
    /\ DOMAIN configFile = {"idle_threshold"}
    /\ IDLE_THRESHOLD = 5
    /\ ALLOWLIST = {"Sith"}
    /\ UPDATE_INTERVAL = 125

\* C14: a load_config that finds no config file writes the default document
\* and returns the defaults; one that finds a file leaves it as it is; after
\* a load_config that returned, the file exists.
C14_DefaultWrittenOnce ==
    /\ [](proc \in {"running", "terminated"} => configKind # "absent")
    /\ [][main("ok")
          => IF configKind = "absent"
             THEN /\ configKind' = "json"
                  /\ configFile' = DefaultConfig(<<"Sith">>)
                  /\ ALLOWLIST' = {"Sith"} /\ IDLE_THRESHOLD' = 2 /\ UPDATE_INTERVAL' = 125
             ELSE UNCHANGED <<configKind, configFile>>]_vars
\* started without a config file: the file now holds the default document
C14_Witness ==
    /\ proc = "running"
    /\ configKind = "json"
    /\ configFile = DefaultConfig(<<"Sith">>)
    /\ ALLOWLIST = {"Sith"}
    /\ color_animation_enabled

\* C15: a tick that tracks an application leaves the persisted recent_apps
\* with at most 10 entries, without duplicates if it had none, and with the
\* tracked application at its head, once.
Recent(file) == Get(file, "recent_apps", <<>>)
NoDuplicates(s) == \A i, j \in DOMAIN s : s[i] = s[j] => i = j
C15_RecentAppsList ==
    [][\A in \in TickInputs :
          (Tracks(AppName(in[1]), last_tracked_app) /\ TickWith(in))
          => /\ Len(Recent(configFile')) <= RECENT_MAX
             /\ NoDuplicates(Recent(configFile)) => NoDuplicates(Recent(configFile'))
             /\ Recent(configFile') # <<>>
             /\ Head(Recent(configFile')) = AppName(in[1])]_vars

\* C16: a settings handler that changes the configuration and returns has
\* written the controller's whole document, the edit included, to the config
\* file, and has made the main loop's globals those of the file; a tick
\* classifies with the globals it finds.
Synced(file) ==
    /\ ALLOWLIST' = Range(file.allowlist)
    /\ IDLE_THRESHOLD' = file.idle_threshold
    /\ color_animation_enabled' = file.enable_color_animation
Written == configFile' = settings_window'.config /\ Synced(configFile')
EditSaved ==
    /\ \A a \in AppNames :
          addApp_(a, "ok") => Written /\ Contains(configFile'.allowlist, a)
    /\ \A i \in 0..Cardinality(AppNames) :
          removeApp_(i, "ok")
          => /\ Written
             /\ Len(configFile'.allowlist) = Len(settings_window.config.allowlist) - 1
    /\ \A f \in IdleFields, u \in UnitIndexes :
          (f.valid /\ idleTimeoutChanged_(f, u, "ok"))
          => Written /\ configFile'.idle_threshold = f.value * multipliers[u + 1]
    /\ colorAnimationChanged_("ok")
          => /\ Written
             /\ configFile'.enable_color_animation
                   = ~Get(settings_window.config, "enable_color_animation", TRUE)
    /\ resetToDefault_("ok")
          => /\ Written
             /\ \A k \in DOMAIN DEFAULT_CONFIG : configFile'[k] = DEFAULT_CONFIG[k]
C16_EditsSavedAndEffective ==
    /\ [][(settings_window.open /\ events' = events + 1) => EditSaved]_vars
    /\ [][\A in \in TickInputs :
             \/ is_working' = WorkingInputs(in)
             \/ last_tick'.raised
             \/ ~TickWith(in)]_vars
\* Code was added to the allowlist in the settings window, and a later tick
\* in Code was classified Working
C16_Witness ==
    /\ proc = "running"
    /\ Contains(Get(configFile, "allowlist", <<>>), "Code")
    /\ "Code" \in ALLOWLIST
    /\ ticks["Code"] > 0
    /\ is_working /\ current_app = "Code"

\* C17: an idle timeout that is not an integer is answered with a modal alert
\* and leaves the in-memory and the persisted configuration unchanged.
C17_InvalidIdleTimeoutAlerts ==
    [][\A u \in UnitIndexes :
          idleTimeoutChanged_([valid |-> FALSE, value |-> 0], u, "ok")
          => /\ alert' # None
             /\ settings_window'.config = settings_window.config
             /\ UNCHANGED <<configFile, globals>>]_vars

\* C18: no write of the config file discards what another writer wrote: a
\* write by a settings handler keeps every tracked application in
\* recent_apps, and a write by track_recent_app keeps every setting.
C18_NoLostUpdate ==
    [][configFile' # configFile
       => IF last_tracked_app' = last_tracked_app
          THEN Range(Recent(configFile)) \subseteq Range(Recent(configFile'))
          ELSE \A k \in DOMAIN configFile \ {"recent_apps"} :
                  k \in DOMAIN configFile' /\ configFile'[k] = configFile[k]]_vars

\* C19: while the process runs, no step removes a day or an application from
\* the in-memory summary or lowers a total or a by_app value.
Grows(old, new) ==
    /\ DOMAIN old \subseteq DOMAIN new
    /\ \A d \in DOMAIN old :
          /\ old[d].total <= new[d].total
          /\ DOMAIN old[d].by_app \subseteq DOMAIN new[d].by_app
          /\ \A a \in DOMAIN old[d].by_app : old[d].by_app[a] <= new[d].by_app[a]
C19_SummaryOnlyGrows ==
    [][(proc = "running" /\ proc' = "running") => Grows(summary, summary')]_vars
\* time was accumulated in Sith, then Sith was removed from the allowlist and
\* the timer was reset: the time is still in the summary
C19_Witness ==
    /\ proc = "running"
    /\ ticks["Sith"] > 0
    /\ "Sith" \notin ALLOWLIST
    /\ worked_seconds = 0
    /\ summary[today].by_app["Sith"]
          = Get(Get(loaded, today, NewDay).by_app, "Sith", 0) + ticks["Sith"] * UPDATE_INTERVAL

\* C20: a closed settings window leaves no refresh timer behind: there is one
\* refresh timer while the settings window is open and none while it is not.
C20_RefreshTimerStopsOnClose ==
    proc = "running" => refresh_timers = (IF settings_window.open THEN 1 ELSE 0)

\* C21: at most one window of each kind (summary, settings, guide) is on
\* screen; a toggle while the window of its kind is visible closes it and
\* creates none, a toggle while it is not visible opens exactly one; a closed
\* window is no longer referenced: the tracked reference is None again.
Kinds == {"summary", "settings", "guide"}
Toggled(visible, kind) ==
    /\ on_screen'[kind] = (IF visible THEN on_screen[kind] - 1 ELSE on_screen[kind] + 1)
    /\ \A k \in Kinds \ {kind} : on_screen'[k] = on_screen[k]
NoClosedWindowTracked ==
    /\ summary_window # "closed"
    /\ guide_window # "closed"
    /\ ~settings_window.window_closed
C21_OneWindowPerKind ==
    /\ [](\A k \in Kinds : on_screen[k] \in {0, 1})
    /\ [](on_screen.summary = 1 <=> summary_window = "visible")
    /\ [](on_screen.guide = 1 <=> guide_window = "visible")
    /\ [](on_screen.settings = 1 <=> settings_window.open)
    /\ [][toggleSummary_ => Toggled(summary_window = "visible", "summary")]_vars
    /\ [][toggleGuide_ => Toggled(guide_window = "visible", "guide")]_vars
    /\ [][toggleSettings_("ok") => Toggled(settings_window.open, "settings")]_vars
    /\ []NoClosedWindowTracked

\* C22: a resetToDefault_ that returns leaves the compiled-in default value
\* under every default key (the nested colours and the allowlist included) in
\* the controller's document and in the config file, leaves the persisted
\* recent_apps as it was, and makes the main loop's allowlist and idle
\* threshold the compiled-in defaults, whatever settings edits preceded it.
CompiledIn == DefaultConfig(<<"Sith">>)
HoldsCompiledIn(doc) == \A k \in DOMAIN CompiledIn : k \in DOMAIN doc /\ doc[k] = CompiledIn[k]
C22_ResetRestoresDefaults ==
    [][resetToDefault_("ok")
       => /\ HoldsCompiledIn(settings_window'.config)
          /\ HoldsCompiledIn(configFile')
          /\ Recent(configFile') = Recent(configFile)
          /\ ALLOWLIST' = Range(CompiledIn.allowlist)
          /\ IDLE_THRESHOLD' = CompiledIn.idle_threshold]_vars

\* C23: DEFAULT_CONFIG, its nested colours and its allowlist included, holds
\* the compiled-in values in every reachable state, also when the config file
\* lacks the "colors" or the "allowlist" key.
C23_DefaultConfigNeverModified ==
    /\ DEFAULT_allowlist = CompiledIn.allowlist
    /\ DEFAULT_colors = CompiledIn.colors

\* C24: while the settings window is open its allowlist has no duplicates
\* and the "-" buttons show it entry by entry (the button with tag i stands
\* beside entry i); addApp_ of an application already in the allowlist and
\* removeApp_ with an index past the end change nothing and write nothing;
\* removeApp_ removes exactly the entry shown beside the pressed button.
Shown(ctl) == Get(ctl.config, "allowlist", <<>>)
ButtonsIndexAllowlist ==
    settings_window.open
    => /\ NoDuplicates(Shown(settings_window))
       /\ settings_window.remove_buttons = Shown(settings_window)
C24_AllowlistButtons ==
    /\ []ButtonsIndexAllowlist
    /\ [][\A a \in AppNames :
             (Contains(Shown(settings_window), a) /\ addApp_(a, "ok"))
             => UNCHANGED <<configFile, settings_window, globals>>]_vars
    /\ [][\A i \in 0..Cardinality(AppNames) :
             removeApp_(i, "ok")
             => IF i < Len(Shown(settings_window))
                THEN /\ Shown(settings_window') =
                           RemoveFirst(Shown(settings_window),
                                       settings_window.remove_buttons[i + 1])
                     /\ configFile'.allowlist = Shown(settings_window')
                ELSE UNCHANGED <<configFile, settings_window, globals>>]_vars

\* C25: while the process runs, either the main window is visible or a
\* status bar item exists, never both and never neither; minimizeToStatusBar_
\* and toggleWindowVisibility_ leave worked_seconds, the summary and the
\* update timer as they are.
C25_WindowOrStatusItem ==
    /\ [](proc = "running" => (window_visible <=> ~status_item))
    /\ [][(minimizeToStatusBar_ \/ toggleWindowVisibility_)
          => UNCHANGED <<worked_seconds, summary, update_timer>>]_vars
\* minimized after time was accumulated
C25_Witness ==
    /\ proc = "running"
    /\ worked_seconds > 0
    /\ ~window_visible /\ status_item

\* C26: while the process runs, worked_seconds is never negative and at most
\* the amount by which the summary's total over all days has grown since
\* startup; the two are equal as long as no reset has discarded session time
\* (in particular as long as resetTimer_ has not been invoked).
TotalOverDays(s) == SumValues([d \in DOMAIN s |-> s[d].total])
GrownSinceStartup == TotalOverDays(summary) - TotalOverDays(loaded)
C26_SessionWithinGrowth ==
    proc = "running"
    => /\ worked_seconds >= 0
       /\ worked_seconds <= GrownSinceStartup
       /\ since_reset = Ticks => worked_seconds = GrownSinceStartup
\* a Working tick, a reset, and another Working tick: the session counter
\* holds one interval, the summary has grown by two
C26_Witness ==
    /\ proc = "running"
    /\ Ticks = 2 /\ since_reset = 1
    /\ worked_seconds = UPDATE_INTERVAL
    /\ GrownSinceStartup = 2 * UPDATE_INTERVAL

\* C27: while the process runs, the summary file holds what it held at
\* startup: no step of the running process (a tick, a timer reset, a settings
\* edit, the opening and closing of the summary, settings and guide windows,
\* minimizing) writes it, so nothing accumulated since startup is in it.
C27_SummaryFileOnlyOnClose ==
    /\ [](proc = "running" => load_summary(summaryFile) = loaded)
    /\ [][proc' = "running" => UNCHANGED summaryFile]_vars
\* time accumulated and reset, a settings edit made, the summary window opened
\* and closed, the guide window open, the main window minimized: the file
\* holds none of the accumulated time
C27_Witness ==
    /\ proc = "running"
    /\ Ticks > 0 /\ since_reset = 0
    /\ events = 1 /\ settings_window.open
    /\ summary_window = "closed"
    /\ guide_window = "visible"
    /\ ~window_visible
    /\ summaryFile.data = loaded
    /\ summary[today].total > loaded[today].total

\* C28: while the process runs, the global UPDATE_INTERVAL, from which a
\* Working tick takes the amount it adds, is the period the update timer was
\* scheduled with; no step of the running process (a settings edit with its
\* reloadConfig, a reset to the defaults) changes either, and every Working
\* tick adds the timer's period to worked_seconds.
C28_IncrementIsTimerPeriod ==
    /\ [](proc = "running" => UPDATE_INTERVAL = update_timer)
    /\ [][proc' = "running" => UNCHANGED <<UPDATE_INTERVAL, update_timer>>]_vars
    /\ [][since_reset' = since_reset + 1
          => worked_seconds' = worked_seconds + update_timer]_vars
\* started with an update_interval of 250 ms in the file; the settings were
\* reset to the defaults (125 ms in the file), then a Working tick added the
\* 250 ms of the timer
C28_Witness ==
    /\ proc = "running"
    /\ update_timer = 250
    /\ configFile.update_interval = 125
    /\ IDLE_THRESHOLD = 2
    /\ since_reset > 0
    /\ worked_seconds = since_reset * 250

\* C29: with colour animation enabled, a tick that changes the working/idle
\* colour leaves exactly one animation timer scheduled, towards the new
\* colour, and there is never more than one; the animation's last step leaves
\* no timer and the labels at the target colour (the colour the last tick
\* decided on); and while an animation is in
\* progress no update tick changes the colour of the labels (in particular,
\* none sets them to the final colour ahead of the animation's last step).
AnimationInProgress == color_anim_timer > 0
ColourDecided ==
    hex_to_nscolor(IF is_working THEN GLASS_WORKING_COLOR ELSE GLASS_INACTIVE_COLOR)
C29_OneAnimationAtATime ==
    /\ [](color_anim_timer \in {0, 1})
    /\ [][(UpdateTick /\ color_animation_enabled /\ ~last_tick'.raised
            /\ ColourDecided' # previous_text_color)
           => /\ color_anim_timer' = 1
              /\ color_anim_to' = ColourDecided']_vars
    /\ [][stepColorAnimation_(TRUE)
           => ~AnimationInProgress' /\ label_color' = previous_text_color]_vars
    /\ [][(UpdateTick /\ AnimationInProgress) => UNCHANGED label_color]_vars
====
